---- MODULE Spec2Model ----
(***************************************************************************)
(* Model of msband/static/__init__.py: the wire-format codecs of the       *)
(* Microsoft Band protocol (timestamps, GUIDs, colours, the Me-tile pixel  *)
(* format, flag masks) and the records composed from them (TileData,       *)
(* ProfileStruct, UserProfileStruct).                                      *)
(*                                                                         *)
(* The codecs are pure functions.  Each one is an operator; the state      *)
(* machine applies one codec per step to an input drawn from a bounded     *)
(* set and records the call in (op, inp, out).                             *)
(*                                                                         *)
(* Values:                                                                 *)
(*   bytes      sequence of integers 0..255                                *)
(*   integer    a Python int that fits 31 bits is a TLA+ integer; the      *)
(*              64-bit tick count of Int64ul is kept as its 8 bytes,       *)
(*              least significant first, because it exceeds TLC's integers *)
(*   str        sequence of Unicode code points                            *)
(*   datetime   [days, sec, us]: whole days since 1601-01-01, second of    *)
(*              the day, microsecond of the second                         *)
(*   uuid.UUID  its 16 bytes in canonical (big-endian) order               *)
(*   result     [ok |-> TRUE, val |-> v] or [ok |-> FALSE, err |-> e]:     *)
(*              the value returned, or the exception raised                *)
(***************************************************************************)
EXTENDS Integers, Sequences, FiniteSets, TLC

VARIABLES op, inp, out, flagIterNull

vars == <<op, inp, out, flagIterNull>>

Ok(v) == [ok |-> TRUE, val |-> v]

Err(e) == [ok |-> FALSE, err |-> e]

\* F applied to the value of r, or the exception r raised
Bind(r, F(_)) == IF r.ok THEN F(r.val) ELSE r

----------------------------------------------------------------------------
(* Integer and byte helpers (Python's int operators, bytes objects).       *)

\* 2 ** n for 0 <= n <= 30
Pow2(n) ==
  << 1, 2, 4, 8, 16, 32, 64, 128, 256, 512, 1024, 2048, 4096, 8192, 16384, 32768, 65536,
     131072, 262144, 524288, 1048576, 2097152, 4194304, 8388608, 16777216, 33554432,
     67108864, 134217728, 268435456, 536870912, 1073741824 >>[n + 1]

\* a << n
Shl(a, n) == a * Pow2(n)

\* a >> n
Shr(a, n) == a \div Pow2(n)

\* a & b
RECURSIVE BitAnd(_, _)
BitAnd(a, b) ==
  IF a = 0 \/ b = 0 THEN 0
  ELSE (a % 2) * (b % 2) + 2 * BitAnd(a \div 2, b \div 2)

\* a | b
RECURSIVE BitOr(_, _)
BitOr(a, b) ==
  IF a = 0 THEN b
  ELSE IF b = 0 THEN a
  ELSE (IF (a % 2) + (b % 2) > 0 THEN 1 ELSE 0) + 2 * BitOr(a \div 2, b \div 2)

\* bytes(n): n zero bytes
Zeros(n) == [i \in 1..n |-> 0]

\* b[lo:lo+n] with 0-based offset lo
Slice(b, lo, n) == [i \in 1..n |-> b[lo + i]]

\* b"".join(ss), joined by halves
RECURSIVE Concat(_)
Concat(ss) ==
  IF ss = <<>> THEN <<>>
  ELSE IF Len(ss) = 1 THEN ss[1]
  ELSE Concat(SubSeq(ss, 1, Len(ss) \div 2)) \o Concat(SubSeq(ss, Len(ss) \div 2 + 1, Len(ss)))

\* little-endian bytes -> integer (at most four bytes, value below 2^31)
LeToInt(b) ==
  LET byte(i) == IF i <= Len(b) THEN b[i] ELSE 0
  IN  byte(1) + 256 * byte(2) + 65536 * byte(3) + 16777216 * byte(4)

\* integer -> n little-endian bytes (n at most four)
IntToLe(v, n) == [i \in 1..n |-> (v \div Pow2(8 * (i - 1))) % 256]

\* strip most significant zero bytes
LongNorm(b) ==
  LET used == {i \in 1..Len(b) : b[i] # 0}
  IN  IF used = {} THEN <<>> ELSE SubSeq(b, 1, CHOOSE i \in used : \A j \in used : j <= i)

\* the last of the values of an expression's operands and of the expression
\* itself, listed in the order Python computes them
Last(steps) == steps[Len(steps)]

Reverse(b) == [i \in 1..Len(b) |-> b[Len(b) + 1 - i]]

\* Long division of the bytes b, most significant first, by a small divisor
\* d (d * 256 must stay below 2^31), rin being the remainder the bytes before
\* b left: the more significant half first, then the other half.
RECURSIVE LongDivFrom(_, _, _)
LongDivFrom(b, d, rin) ==
  IF b = <<>> THEN [q |-> <<>>, r |-> rin]
  ELSE IF Len(b) = 1 THEN [q |-> <<(rin * 256 + b[1]) \div d>>, r |-> (rin * 256 + b[1]) % d]
  ELSE LET hi == LongDivFrom(SubSeq(b, 1, Len(b) \div 2), d, rin)
           lo == LongDivFrom(SubSeq(b, Len(b) \div 2 + 1, Len(b)), d, hi.r)
       IN  [q |-> hi.q \o lo.q, r |-> lo.r]

\* Long division of a little-endian byte string by a small divisor d:
\* quotient as little-endian bytes, remainder as integer.
LongDiv(b, d) ==
  LET dv == LongDivFrom(Reverse(b), d, 0)
  IN  [q |-> Reverse(dv.q), r |-> dv.r]

\* Multiplication of the little-endian bytes b by a small factor k (k * 256
\* must stay below 2^31) plus a carry: the less significant half first, then
\* the other half.  [d |-> the bytes, c |-> the carry out of them]
RECURSIVE LongMulC(_, _, _)
LongMulC(b, k, carry) ==
  IF b = <<>> THEN [d |-> <<>>, c |-> carry]
  ELSE IF Len(b) = 1 THEN [d |-> <<(b[1] * k + carry) % 256>>, c |-> (b[1] * k + carry) \div 256]
  ELSE LET lo == LongMulC(SubSeq(b, 1, Len(b) \div 2), k, carry)
           hi == LongMulC(SubSeq(b, Len(b) \div 2 + 1, Len(b)), k, lo.c)
       IN  [d |-> lo.d \o hi.d, c |-> hi.c]

\* b * k: the last carry is appended in as many bytes as it needs
LongMul(b, k) ==
  LET m == LongMulC(b, k, 0)
  IN  m.d \o LongNorm(IntToLe(m.c, 4))

\* pad with most significant zero bytes up to n bytes
LongPad(b, n) == IF Len(b) >= n THEN b ELSE b \o Zeros(n - Len(b))

----------------------------------------------------------------------------
(* BandTime: 100 ns ticks since 1601-01-01 <-> datetime                     *)

\* EPOCH = dt.datetime(1601, 1, 1, tzinfo=utc): day 0 of the model's datetime
EPOCH == [days |-> 0, sec |-> 0, us |-> 0]

\* dt.datetime.max is 9999-12-31T23:59:59.999999: date.max.toordinal() -
\* EPOCH.toordinal() = 3652059 - 584389 days after EPOCH
DATETIME_MAX_DAYS == 3067670

\* dt.timedelta(microseconds = us), us given as little-endian bytes,
\* normalised by timedelta into days, seconds and microseconds
TimeDelta(usBytes) ==
  LET a == LongDiv(usBytes, 1000)
      b == LongDiv(a.q, 1000)
      c == LongDiv(b.q, 86400)
  IN  [us |-> a.r + b.r * 1000, sec |-> c.r, days |-> LeToInt(LongNorm(c.q))]

\* EPOCH + timedelta: OverflowError when the date leaves datetime's range
DatetimeAdd(d, td) ==
  LET us   == d.us + td.us
      sec  == d.sec + td.sec + (us \div 1000000)
      days == d.days + td.days + (sec \div 86400)
  IN  IF days > DATETIME_MAX_DAYS \/ days < -584388
      THEN Err("OverflowError")
      ELSE Ok([days |-> days, sec |-> sec % 86400, us |-> us % 1000000])

\* BandTime._decode(obj): EPOCH + dt.timedelta(microseconds=obj // 10)
BandTime_decode(obj) ==
  LET micros == LongDiv(obj, 10).q
      delta  == TimeDelta(micros)
      date   == DatetimeAdd(EPOCH, delta)
  IN  Last(<<micros, delta, date>>)

----------------------------------------------------------------------------
(* MeTileAdapter: RGB raster -> packed 16-bit pixels                        *)

\* image.tobytes("raw", "RGB"): the rows one after another, three bytes a pixel
ImageToBytes(image) == Concat(Concat(image.rows))

\* itertools.islice(rgb, start, None, 3), start 0-based
ISlice3(rgb, start) == [i \in 1..((Len(rgb) - start + 2) \div 3) |-> rgb[start + 3 * (i - 1) + 1]]

\* MeTilePixelBytes with the green bits of the high byte taken one position
\* too low: (g_value >> 2) >> 2 instead of (g_value >> 2) >> 3
MeTilePixelBytes_greenShift(r_value, g_value, b_value) ==
  << BitOr(BitAnd(Shl(g_value, 3), 224), BitAnd(Shr(b_value, 3), 31)),
     BitOr(BitAnd(r_value, 248), BitAnd(Shr(Shr(g_value, 2), 2), 7)) >>

\* the two bytes generated for one pixel
MeTilePixelBytes(r_value, g_value, b_value) ==
  << BitOr(BitAnd(Shl(g_value, 3), 224), BitAnd(Shr(b_value, 3), 31)),
     BitOr(BitAnd(r_value, 248), BitAnd(Shr(Shr(g_value, 2), 3), 7)) >>

\* MeTileAdapter._encode(image)
MeTileAdapter_encode(image) ==
  LET rgb == ImageToBytes(image)
      r   == ISlice3(rgb, 0)
      g   == ISlice3(rgb, 1)
      b   == ISlice3(rgb, 2)
      n   == Len(b)     \* zip stops at the shortest
  IN  Concat([i \in 1..n |-> MeTilePixelBytes(r[i], g[i], b[i])])

----------------------------------------------------------------------------
(* BandTime._encode: datetime -> ticks, through Python floats.              *)
(* Natural numbers beyond 31 bits are little-endian byte strings without    *)
(* most significant zero bytes ("long").                                    *)

Long(v) == LongNorm(IntToLe(v, 4))

RECURSIVE LongAddSmall(_, _)
LongAddSmall(b, k) ==
  IF k = 0 THEN b
  ELSE IF b = <<>> THEN <<k % 256>> \o LongAddSmall(<<>>, k \div 256)
  ELSE LET cur == Head(b) + k
       IN  <<cur % 256>> \o LongAddSmall(Tail(b), cur \div 256)

\* int.bit_length() of a small integer: the number of powers of two up to v
BitLenInt(v) == Cardinality({i \in 0..30 : Pow2(i) <= v})

\* int.bit_length()
BitLen(b) == IF b = <<>> THEN 0 ELSE 8 * (Len(b) - 1) + BitLenInt(b[Len(b)])

IsOdd(b) == b # <<>> /\ b[1] % 2 = 1

\* b >> k, remembering whether a one was shifted out: whole bytes first,
\* then the remaining bits
ShrSticky(b, k, sticky) ==
  LET nb   == IF k \div 8 > Len(b) THEN Len(b) ELSE k \div 8
      low  == SubSeq(b, 1, nb)
      rest == LongDiv(SubSeq(b, nb + 1, Len(b)), Pow2(k % 8))
  IN  Last(<<rest, [q |-> LongNorm(rest.q),
                    sticky |-> sticky \/ rest.r # 0 \/ \E i \in 1..nb : low[i] # 0]>>)

\* b << k
LongShl(b, k) ==
  LET m == LongMul(b, Pow2(k % 8))
  IN  IF b = <<>> THEN <<>> ELSE Last(<<m, Zeros(k \div 8) \o m>>)

\* round(b / 2^k) to the nearest integer, ties to even (IEEE 754 rounding of
\* a significand that has k bits too many)
RoundShr(b, k) ==
  IF k = 0 THEN b
  ELSE LET lo   == ShrSticky(b, k - 1, FALSE)
           half == IsOdd(lo.q)
           q    == LongNorm(LongDiv(lo.q, 2).q)
       IN  Last(<<lo, q, IF half /\ (lo.sticky \/ IsOdd(q)) THEN LongAddSmall(q, 1) ELSE q>>)

\* A positive double is [m, e]: the value m * 2^e with m a long of at most
\* 53 bits.

\* n / d for a long n > 0 and a small integer d (int.__truediv__): the
\* double nearest to the quotient, ties to even.  n is scaled by 2^s so that
\* the integer quotient has exactly 53 bits.
TrueDivideAt(n, d, s) ==
  LET scaled == LongShl(n, s)
      dv     == LongDiv(scaled, d)
      q      == LongNorm(dv.q)
  IN  Last(<<scaled, dv, q,
             [m |-> IF 2 * dv.r > d \/ (2 * dv.r = d /\ IsOdd(q)) THEN LongAddSmall(q, 1) ELSE q,
              e |-> 0 - s,
              bits |-> BitLen(q)]>>)

TrueDivide(n, d) ==
  LET s  == 53 - (BitLen(n) - BitLenInt(d))
      x  == TrueDivideAt(n, d, s)
      x1 == TrueDivideAt(n, d, s - 1)
  IN  IF x.bits = 53 THEN [m |-> x.m, e |-> x.e] ELSE [m |-> x1.m, e |-> x1.e]

\* x * 10000000 for a double x (float.__mul__): the exact product
\* (10000000 = 10000 * 1000) rounded once to 53 bits
FloatMul10000000(x) ==
  LET p1    == LongMul(x.m, 10000)
      p     == LongMul(p1, 1000)
      extra == IF BitLen(p) > 53 THEN BitLen(p) - 53 ELSE 0
  IN  Last(<<p1, p, [m |-> RoundShr(p, extra), e |-> x.e + extra]>>)

\* int(x) for a double x >= 0
FloatToInt(x) == IF x.e >= 0 THEN LongShl(x.m, x.e) ELSE ShrSticky(x.m, 0 - x.e, FALSE).q

\* (date - EPOCH) as the integer number of microseconds, date >= EPOCH
MicrosSinceEpoch(date) ==
  LET seconds == LongAddSmall(LongMul(Long(date.days), 86400), date.sec)
      millis  == LongMul(seconds, 1000)
      micros  == LongMul(millis, 1000)
  IN  Last(<<seconds, millis, micros, LongAddSmall(micros, date.us)>>)

\* timedelta.total_seconds(): microseconds / 10**6
TotalSeconds(us) == TrueDivide(us, 1000000)

\* BandTime._encode(date):
\*   date > datetime.max (UTC) and date < EPOCH raise ValueError;
\*   int((date - EPOCH).total_seconds() * 10000000)
BandTime_encode(date) ==
  IF date.days > DATETIME_MAX_DAYS THEN Err("ValueError")
  ELSE IF date.days < 0 THEN Err("ValueError")
  ELSE LET us      == MicrosSinceEpoch(date)
           seconds == TotalSeconds(us)
           ticks   == FloatMul10000000(seconds)
           int     == LongNorm(FloatToInt(ticks))
       IN  IF us = <<>> THEN Ok(<<>>) ELSE Ok(Last(<<seconds, ticks, int>>))

----------------------------------------------------------------------------
(* Fixed-width integers of construct (FormatField): build checks the range, *)
(* parse needs exactly the field's bytes.                                   *)

\* stream_read(stream, n): StreamError unless n bytes are left at offset pos
StreamRead(buf, pos, n) ==
  IF pos + n <= Len(buf) THEN Ok(Slice(buf, pos, n)) ELSE Err("StreamError")

\* Int8ul.build / Int16ul.build of a small integer
IntBuild(v, width) ==
  IF v < 0 \/ v >= Pow2(8 * width) THEN Err("FormatFieldError") ELSE Ok(IntToLe(v, width))

\* Int32ul.build / Int64ul.build of a long
LongBuild(v, width) ==
  IF Len(v) > width THEN Err("FormatFieldError") ELSE Ok(LongPad(v, width))

----------------------------------------------------------------------------
(* GUIDAdapter                                                              *)

\* uuid.UUID.bytes_le and uuid.UUID(bytes_le=...): the first three components
\* byte-reversed, the last eight bytes as they are
BytesLe(b) == <<b[4], b[3], b[2], b[1], b[6], b[5], b[8], b[7]>> \o SubSeq(b, 9, 16)

\* GUIDAdapter._encode(guid): guid.bytes_le
GUIDAdapter_encode(guid) == BytesLe(guid)

\* GUIDAdapter._decode(guid): uuid.UUID(bytes_le=guid)
GUIDAdapter_decode(guid) == IF Len(guid) # 16 THEN Err("ValueError") ELSE Ok(BytesLe(guid))

----------------------------------------------------------------------------
(* ARGB and ArgbAdapter                                                     *)

\* ARGB.struct: the four Hex(Int8ul) fields in declaration order
ARGB_struct == <<"alpha", "red", "green", "blue">>

\* vars(ARGB): the namespace of the class ARGB.  Of the struct's field names
\* it holds only alpha (the dataclass default 255); red, green and blue have
\* no default and are no class attributes.
ARGB_vars == [alpha |-> 255]

\* ARGB.struct.build(obj): Struct._build takes obj[name] for every field
RECURSIVE ARGB_struct_build(_, _)
ARGB_struct_build(obj, names) ==
  IF names = <<>> THEN Ok(<<>>)
  ELSE IF Head(names) \notin DOMAIN obj THEN Err("KeyError")
  ELSE LET b    == IntBuild(obj[Head(names)], 1)
           rest == ARGB_struct_build(obj, Tail(names))
       IN  IF ~b.ok THEN b
           ELSE IF ~rest.ok THEN rest
           ELSE Ok(b.val \o rest.val)

\* ArgbAdapter._encode(obj, context, path): builds vars(ARGB), not obj
ArgbAdapter_encode(obj) == ARGB_struct_build(ARGB_vars, ARGB_struct)

\* ArgbAdapter._decode(obj, context, path): ARGB.struct.parse(obj), then
\* ARGB(alpha=, red=, green=, blue=)
ArgbAdapter_decode(obj) ==
  IF Len(obj) < 4 THEN Err("StreamError")
  ELSE Ok([alpha |-> obj[1], red |-> obj[2], green |-> obj[3], blue |-> obj[4]])

\* ArgbStruct = ArgbAdapter(Bytes(4)): Adapter._build encodes, then Bytes(4)
\* builds the encoded bytes
ArgbStruct_build(obj) ==
  Bind(ArgbAdapter_encode(obj), LAMBDA e : IF Len(e) # 4 THEN Err("StreamError") ELSE Ok(e))

ArgbStruct_parse(buf, pos) == Bind(StreamRead(buf, pos, 4), ArgbAdapter_decode)

----------------------------------------------------------------------------
(* TileSettings and FlagsEnum(Int16ul, TileSettings)                        *)

TileSettings ==
  [Null |-> 0, EnableNotification |-> 1, EnableBadging |-> 2, UseCustomColorForTile |-> 4,
   EnableAutoUpdate |-> 8, ScreenTimeout30Seconds |-> 16, ScreenTimeoutDisabled |-> 32]

\* FlagsEnum.__init__: "for enumentry in enum" collects the flags.  Iterating
\* an IntFlag yields the zero-valued member Null up to Python 3.10 and skips
\* it from Python 3.11 on; iterNull tells which.
FlagNames(iterNull) == IF iterNull THEN DOMAIN TileSettings ELSE DOMAIN TileSettings \ {"Null"}

\* FlagsEnum._decode(obj): a Container name -> (obj & value == value)
FlagsEnum_decode(obj, iterNull) ==
  [name \in FlagNames(iterNull) |-> BitAnd(obj, TileSettings[name]) = TileSettings[name]]

RECURSIVE OrAll(_)
OrAll(vs) ==
  IF vs = {} THEN 0
  ELSE LET v == CHOOSE x \in vs : TRUE IN BitOr(v, OrAll(vs \ {v}))

\* FlagsEnum._encode(obj): an integer (also an IntFlag member) is returned as
\* it is; a dict gives the union of the flags whose value is true, and
\* MappingError for a name that is no flag.
\* obj is [int |-> n] or [dict |-> name -> BOOLEAN].
FlagsEnum_encode(obj, iterNull) ==
  IF "int" \in DOMAIN obj THEN Ok(obj.int)
  ELSE IF \E name \in DOMAIN obj.dict : obj.dict[name] /\ name \notin FlagNames(iterNull)
       THEN Err("MappingError")
       ELSE Ok(OrAll({TileSettings[name] : name \in {n \in DOMAIN obj.dict : obj.dict[n]}}))

----------------------------------------------------------------------------
(* PaddedString(length, "utf_16_le")                                        *)

\* one code point in UTF-16 code units; <<>> for a surrogate code point,
\* which str.encode rejects
Utf16Units(cp) ==
  IF cp >= 55296 /\ cp <= 57343 THEN <<>>
  ELSE IF cp < 65536 THEN <<cp>>
  ELSE <<55296 + ((cp - 65536) \div 1024), 56320 + ((cp - 65536) % 1024)>>

\* str.encode("utf_16_le")
Utf16Encode(str) ==
  IF \E i \in 1..Len(str) : Utf16Units(str[i]) = <<>> THEN Err("UnicodeEncodeError")
  ELSE Ok(Concat([i \in 1..Len(str) |-> Concat([j \in 1..Len(Utf16Units(str[i])) |-> IntToLe(Utf16Units(str[i])[j], 2)])]))

HighSurrogate(unit) == unit >= 55296 /\ unit <= 56319

LowSurrogate(unit) == unit >= 56320 /\ unit <= 57343

\* code units -> code points; <<-1>> marks a decoding error.  A high
\* surrogate must be followed by a low one and a low surrogate must follow a
\* high one; every other unit, and every high surrogate, starts a character.
UnitsToStr(u) ==
  LET n      == Len(u)
      starts == {i \in 1..n : ~LowSurrogate(u[i])}
      at(k)  == CHOOSE i \in starts : Cardinality({j \in starts : j <= i}) = k
      cp(i)  == IF HighSurrogate(u[i])
                THEN 65536 + (u[i] - 55296) * 1024 + (u[i + 1] - 56320)
                ELSE u[i]
  IN  IF \E i \in 1..n : \/ HighSurrogate(u[i]) /\ ~(i < n /\ LowSurrogate(u[i + 1]))
                         \/ LowSurrogate(u[i]) /\ ~(i > 1 /\ HighSurrogate(u[i - 1]))
      THEN <<-1>>
      ELSE [k \in 1..Cardinality(starts) |-> cp(at(k))]

\* bytes.decode("utf_16_le")
Utf16Decode(b) ==
  IF Len(b) % 2 = 1 THEN Err("UnicodeDecodeError")
  ELSE LET str == UnitsToStr([i \in 1..(Len(b) \div 2) |-> b[2 * i - 1] + 256 * b[2 * i]])
       IN  IF str = <<-1>> THEN Err("UnicodeDecodeError") ELSE Ok(str)

\* NullStripped._parse with the two-byte pad of utf_16_le: drop the trailing
\* zero code units, two bytes at a time from the end
NullStrip(b) ==
  LET n     == Len(b)
      zero  == {k \in 0..(n \div 2) : \A j \in 1..k : b[n - 2 * j + 1] = 0 /\ b[n - 2 * j + 2] = 0}
      units == CHOOSE k \in zero : \A m \in zero : m <= k
  IN  SubSeq(b, 1, n - 2 * units)

\* PaddedString(length, "utf_16_le").build(obj): the encoded string, padded
\* with zero bytes to length; PaddingError when it is longer
PaddedString_build(obj, length) ==
  Bind(Utf16Encode(obj),
       LAMBDA e : IF length < 0 \/ Len(e) > length THEN Err("PaddingError")
                  ELSE Ok(e \o Zeros(length - Len(e))))

\* PaddedString(length, "utf_16_le").parse: length bytes, null-stripped, decoded
PaddedString_parse(buf, pos, length) ==
  IF length < 0 THEN Err("PaddingError")
  ELSE Bind(StreamRead(buf, pos, length), LAMBDA b : Utf16Decode(NullStrip(b)))

----------------------------------------------------------------------------
(* construct.Struct, Padded and the field constructs the records use.       *)
(*                                                                          *)
(* A field is [name, con]; con is one of                                    *)
(*   [kind |-> "Int", width]        Int8ul, Int16ul                          *)
(*   [kind |-> "Long", width]       Int32ul (values kept as longs)           *)
(*   [kind |-> "BandTime"]          BandTime(Int64ul)                        *)
(*   [kind |-> "GUID"]              GUIDAdapter(Bytes(16))                   *)
(*   [kind |-> "Argb"]              ArgbStruct                               *)
(*   [kind |-> "DefaultLen", of]    Default(Int16ul, len_(this.<of>))        *)
(*   [kind |-> "FlagsEnum"]         FlagsEnum(Int16ul, TileSettings)         *)
(*   [kind |-> "PaddedString", units, ref]                                  *)
(*                                  PaddedString(units * 2, "utf_16_le") or, *)
(*                                  with ref, PaddedString(this.<ref> * 2)   *)
(*   [kind |-> "Enum", width, enum] TEnum / the IntEnumAdapter adapters      *)
(*   [kind |-> "DefaultFlag"]       Default(Flag, False)                     *)
(*   [kind |-> "If", sub, min]      If(this.Version >= min, sub)             *)
(*   [kind |-> "GreedyBytes"], [kind |-> "Bytes", n]                         *)
(* The value of a field that may be None (a Default field, an If field) is  *)
(* a sequence: <<>> for None, <<v>> for v.                                  *)
(* env.iterNull: see FlagNames.  env.enumKnown: whether the enumeration     *)
(* adapters recognise the codes found in the buffer.                        *)

\* the byte length PaddedString evaluates: units * 2 or this.<ref> * 2
StringLength(con, ctx) == IF con.ref = "" THEN con.units * 2 ELSE ctx[con.ref][1] * 2

\* enumeration adapters (TEnum(Int8ul, Gender), LocaleIdAdapter(Int16ul), ...):
\* a member is [enum, code]; build writes the code
EnumAdapter_encode(obj) == obj.code

\* parse maps the code to the member, and fails for a code that is none
EnumAdapter_decode(code, enum, known) ==
  IF known THEN Ok([enum |-> enum, code |-> code]) ELSE Err("MappingError")

\* the outcome of a field's build: the bytes b wrote and the value ret that
\* Struct puts into the context, or the exception b raised
Built(b, ret) == Bind(b, LAMBDA data : Ok([data |-> data, ret |-> ret]))

\* the outcome of a field's parse: the value r and the n bytes consumed, or
\* the exception r raised
Parsed(r, n) == Bind(r, LAMBDA val : Ok([val |-> val, len |-> n]))

\* subcon._build(obj, stream, context, path): Ok([data, ret])
RECURSIVE ConBuild(_, _, _, _)
ConBuild(con, obj, ctx, env) ==
  CASE con.kind = "Int" -> Built(IntBuild(obj, con.width), obj)
    [] con.kind = "Long" -> Built(LongBuild(obj, con.width), obj)
    [] con.kind = "BandTime" ->
         Built(Bind(BandTime_encode(obj), LAMBDA ticks : LongBuild(ticks, 8)), obj)
    [] con.kind = "GUID" -> Built(Ok(GUIDAdapter_encode(obj)), obj)
    [] con.kind = "Argb" -> Built(ArgbStruct_build(obj), obj)
    [] con.kind = "DefaultLen" ->
         \* Default._build: obj = self.value if obj is None else obj
         LET v == IF obj = <<>> THEN Len(ctx[con.of]) ELSE obj[1]
         IN  Built(IntBuild(v, 2), <<v>>)
    [] con.kind = "FlagsEnum" ->
         Built(Bind(FlagsEnum_encode(obj, env.iterNull), LAMBDA mask : IntBuild(mask, 2)), obj)
    [] con.kind = "PaddedString" -> Built(PaddedString_build(obj, StringLength(con, ctx)), obj)
    [] con.kind = "Enum" -> Built(IntBuild(EnumAdapter_encode(obj), con.width), obj)
    [] con.kind = "DefaultFlag" ->
         \* Flag._build: b"\x01" if obj else b"\x00"
         LET v == IF obj = <<>> THEN FALSE ELSE obj[1]
         IN  Built(Ok(IF v THEN <<1>> ELSE <<0>>), <<v>>)
    [] con.kind = "If" ->
         \* IfThenElse._build: the subcon when the condition holds, else Pass,
         \* which writes nothing whatever obj is
         IF ctx["Version"] >= con.min
         THEN IF obj = <<>>
              THEN \* the subcon is given None
                   Err(IF con.sub.kind = "BandTime" THEN "TypeError" ELSE "FormatFieldError")
              ELSE ConBuild(con.sub, obj[1], ctx, env)
         ELSE Built(Ok(<<>>), <<>>)
    [] con.kind = "GreedyBytes" -> Built(Ok(obj), obj)
    [] con.kind = "Bytes" ->
         Built(IF Len(obj) # con.n THEN Err("StreamError") ELSE Ok(obj), obj)

\* subcon._parse at offset pos: Ok([val, len]) with the value and the
\* number of bytes consumed
RECURSIVE ConParse(_, _, _, _, _)
ConParse(con, buf, pos, ctx, env) ==
  CASE con.kind = "Int" ->
         Parsed(Bind(StreamRead(buf, pos, con.width), LAMBDA b : Ok(LeToInt(b))), con.width)
    [] con.kind = "Long" ->
         Parsed(Bind(StreamRead(buf, pos, con.width), LAMBDA b : Ok(LongNorm(b))), con.width)
    [] con.kind = "BandTime" -> Parsed(Bind(StreamRead(buf, pos, 8), BandTime_decode), 8)
    [] con.kind = "GUID" -> Parsed(Bind(StreamRead(buf, pos, 16), GUIDAdapter_decode), 16)
    [] con.kind = "Argb" -> Parsed(ArgbStruct_parse(buf, pos), 4)
    [] con.kind = "DefaultLen" ->
         Parsed(Bind(StreamRead(buf, pos, 2), LAMBDA b : Ok(<<LeToInt(b)>>)), 2)
    [] con.kind = "FlagsEnum" ->
         Parsed(Bind(StreamRead(buf, pos, 2),
                     LAMBDA b : Ok(FlagsEnum_decode(LeToInt(b), env.iterNull))), 2)
    [] con.kind = "PaddedString" ->
         Parsed(PaddedString_parse(buf, pos, StringLength(con, ctx)), StringLength(con, ctx))
    [] con.kind = "Enum" ->
         Parsed(Bind(StreamRead(buf, pos, con.width),
                     LAMBDA b : EnumAdapter_decode(LeToInt(b), con.enum, env.enumKnown)),
                con.width)
    [] con.kind = "DefaultFlag" ->
         \* Flag._parse: the byte differs from zero
         Parsed(Bind(StreamRead(buf, pos, 1), LAMBDA b : Ok(<<b[1] # 0>>)), 1)
    [] con.kind = "If" ->
         \* IfThenElse._parse: the subcon when the condition holds, else Pass,
         \* which reads nothing and returns None
         IF ctx["Version"] >= con.min
         THEN Bind(ConParse(con.sub, buf, pos, ctx, env),
                   LAMBDA d : Ok([val |-> <<d.val>>, len |-> d.len]))
         ELSE Ok([val |-> <<>>, len |-> 0])
    [] con.kind = "GreedyBytes" ->
         \* stream_read_entire: everything up to the end of the stream
         Ok([val |-> Slice(buf, pos, Len(buf) - pos), len |-> Len(buf) - pos])
    [] con.kind = "Bytes" -> Parsed(StreamRead(buf, pos, con.n), con.n)

\* construct builds with flagbuildnone: the fields Struct._build reads with
\* obj.get(name, None) instead of obj[name]
FlagBuildNone(con) == con.kind \in {"DefaultLen", "DefaultFlag"}

\* Struct._build: the context starts as a copy of obj; every field is built
\* from obj[name] in declaration order, and its return value replaces
\* context[name].  Ok([data, ctx]).  The loop over the fields is run as the
\* first half of the fields followed by the second half.
RECURSIVE StructBuild(_, _, _, _, _)
StructBuild(fields, obj, ctx, data, env) ==
  IF fields = <<>> THEN Ok([data |-> data, ctx |-> ctx])
  ELSE IF Len(fields) = 1
  THEN LET f == fields[1]
           subobj == IF f.name \in DOMAIN obj THEN obj[f.name] ELSE <<>>
       IN  IF f.name \notin DOMAIN obj /\ ~FlagBuildNone(f.con) THEN Err("KeyError")
           ELSE Bind(ConBuild(f.con, subobj, (f.name :> subobj) @@ ctx, env),
                     LAMBDA b : Ok([data |-> data \o b.data, ctx |-> (f.name :> b.ret) @@ ctx]))
  ELSE Bind(StructBuild(SubSeq(fields, 1, Len(fields) \div 2), obj, ctx, data, env),
            LAMBDA d : StructBuild(SubSeq(fields, Len(fields) \div 2 + 1, Len(fields)),
                                   obj, d.ctx, d.data, env))

\* Struct._parse: every field is parsed in declaration order at the stream
\* position the previous one left, and stored in the context.  Ok([val, len])
\* with the context and the position reached.  The loop over the fields is
\* run as the first half of the fields followed by the second half.
RECURSIVE StructParse(_, _, _, _, _)
StructParse(fields, buf, pos, ctx, env) ==
  IF fields = <<>> THEN Ok([val |-> ctx, len |-> pos])
  ELSE IF Len(fields) = 1
  THEN Bind(ConParse(fields[1].con, buf, pos, ctx, env),
            LAMBDA d : Ok([val |-> (fields[1].name :> d.val) @@ ctx, len |-> pos + d.len]))
  ELSE Bind(StructParse(SubSeq(fields, 1, Len(fields) \div 2), buf, pos, ctx, env),
            LAMBDA d : StructParse(SubSeq(fields, Len(fields) \div 2 + 1, Len(fields)),
                                   buf, d.len, d.val, env))

\* Padded(length, Struct(fields)).build(obj): PaddingError when the subcon
\* built more than length bytes, else the bytes followed by zero bytes
PaddedBuild(length, fields, obj, env) ==
  Bind(StructBuild(fields, obj, obj, <<>>, env),
       LAMBDA b : IF length - Len(b.data) < 0 THEN Err("PaddingError")
                  ELSE Ok(b.data \o Zeros(length - Len(b.data))))

\* Padded(length, Struct(fields)).parse(buf): PaddingError when the subcon
\* parsed more than length bytes; the padding is then read from the stream
\* (StreamError when the buffer ends before it).  Bytes after the padding
\* stay unread in the stream.
PaddedParse(length, fields, buf, env) ==
  Bind(StructParse(fields, buf, 0, <<>>, env),
       LAMBDA d : IF length - d.len < 0 THEN Err("PaddingError")
                  ELSE Bind(StreamRead(buf, d.len, length - d.len), LAMBDA pad : Ok(d.val)))

----------------------------------------------------------------------------
(* The records                                                              *)

Fld(name, con) == [name |-> name, con |-> con]

Int8ul == [kind |-> "Int", width |-> 1]

Int16ul == [kind |-> "Int", width |-> 2]

Int32ul == [kind |-> "Long", width |-> 4]

BandTimeInt64ul == [kind |-> "BandTime"]

GUIDBytes16 == [kind |-> "GUID"]

PaddedString(units) == [kind |-> "PaddedString", units |-> units, ref |-> ""]

EnumCon(width, enum) == [kind |-> "Enum", width |-> width, enum |-> enum]

\* If(this.Version > 2, sub): the comparison made strict
IfVersion2_strict(sub) == [kind |-> "If", sub |-> sub, min |-> 3]

\* If(this.Version >= 2, sub)
IfVersion2(sub) == [kind |-> "If", sub |-> sub, min |-> 2]

\* the length of Padded(16 + 4 + 4 + 2 + 2 + 60, ...)
TILE_SIZE == 16 + 4 + 4 + 2 + 2 + 60

\* the construct.Struct inside TileData
TileData_fields ==
  << Fld("GUID", GUIDBytes16),
     Fld("Order", Int32ul),
     Fld("ThemeColor", [kind |-> "Argb"]),
     Fld("_NameLength", [kind |-> "DefaultLen", of |-> "TileName"]),
     Fld("SettingsMask", [kind |-> "FlagsEnum"]),
     Fld("TileName", [kind |-> "PaddedString", units |-> 0, ref |-> "_NameLength"]),
     Fld("OwnerGUID", GUIDBytes16) >>

\* TileData.build(obj)
TileData_build(obj, env) == PaddedBuild(TILE_SIZE, TileData_fields, obj, env)

\* TileData.parse(buf)
TileData_parse(buf, env) == PaddedParse(TILE_SIZE, TileData_fields, buf, env)

\* the nine fields declared with If(this.Version >= 2, ...)
GatedNames ==
  << "HwagChangeTime", "HwagChangeAgent", "DeviceNameChangeTime", "DeviceNameChangeAgent",
     "LocaleSettingsChangeTime", "LocaleSettingsChangeAgent", "LanguageChangeTime",
     "LanguageChangeAgent", "MaxHR" >>

\* the fields of the dataclass Profile, in declaration order
Profile_fields ==
  << Fld("Version", Int16ul),
     Fld("LastSync", BandTimeInt64ul),
     Fld("UserGUID", GUIDBytes16),
     Fld("Birthday", BandTimeInt64ul),
     Fld("Weight_g", Int32ul),
     Fld("Height_mm", Int16ul),
     Fld("Gender", EnumCon(1, "Gender")),
     Fld("DeviceName", PaddedString(16)),
     Fld("LocaleName", PaddedString(6)),
     Fld("LocaleId", EnumCon(2, "LocaleId")),
     Fld("Language", EnumCon(2, "Language")),
     Fld("DateSeparator", PaddedString(1)),
     Fld("NumberSeparator", PaddedString(1)),
     Fld("DecimalSeparator", PaddedString(1)),
     Fld("TimeFormat", EnumCon(1, "DisplayTimeFormat")),
     Fld("DateFormat", EnumCon(1, "DisplayDateFormat")),
     Fld("DistanceShortUnits", EnumCon(1, "UnitType")),
     Fld("DistanceLongUnits", EnumCon(1, "UnitType")),
     Fld("MassUnits", EnumCon(1, "UnitType")),
     Fld("VolumeUnits", EnumCon(1, "UnitType")),
     Fld("EnergyUnits", EnumCon(1, "UnitType")),
     Fld("TemperatureUnits", EnumCon(1, "UnitType")),
     Fld("RunDisplayUnits", EnumCon(1, "UnitType")),
     Fld("Telemetry", [kind |-> "DefaultFlag"]),
     Fld("HwagChangeTime", IfVersion2(BandTimeInt64ul)),
     Fld("HwagChangeAgent", IfVersion2(Int8ul)),
     Fld("DeviceNameChangeTime", IfVersion2(BandTimeInt64ul)),
     Fld("DeviceNameChangeAgent", IfVersion2(Int8ul)),
     Fld("LocaleSettingsChangeTime", IfVersion2(BandTimeInt64ul)),
     Fld("LocaleSettingsChangeAgent", IfVersion2(Int8ul)),
     Fld("LanguageChangeTime", IfVersion2(BandTimeInt64ul)),
     Fld("LanguageChangeAgent", IfVersion2(Int8ul)),
     Fld("MaxHR", IfVersion2(Int8ul)),
     Fld("ReservedData", [kind |-> "GreedyBytes"]) >>

PROFILE_SIZE == 397

\* ProfileStruct.build(obj): DataclassStruct hands the dataclass's fields to
\* the Struct
ProfileStruct_build(obj, env) == PaddedBuild(PROFILE_SIZE, Profile_fields, obj, env)

\* ProfileStruct.parse(buf)
ProfileStruct_parse(buf, env) == PaddedParse(PROFILE_SIZE, Profile_fields, buf, env)

\* the fields of the dataclass UserProfile
UserProfile_fields ==
  << Fld("Version", Int16ul),
     Fld("LastSync", BandTimeInt64ul),
     Fld("UserGUID", GUIDBytes16),
     Fld("ReservedData", [kind |-> "Bytes", n |-> 256]) >>

\* the bytes UserProfile's fields take: 2 + 8 + 16 + 256
USER_PROFILE_SIZE == 282

\* UserProfileStruct.parse(buf): a DataclassStruct without Padded
UserProfileStruct_parse(buf, env) ==
  Bind(StructParse(UserProfile_fields, buf, 0, <<>>, env), LAMBDA d : Ok(d.val))

----------------------------------------------------------------------------
(* Inputs                                                                   *)

MaxDim == 2

\* tick counts around the decoder's boundaries: 0, sub-microsecond values,
\* the last tick of 9999-12-31 and the first one after it, 2^64 - 1
TickSamples ==
  { <<0, 0, 0, 0, 0, 0, 0, 0>>, <<5, 0, 0, 0, 0, 0, 0, 0>>, <<10, 0, 0, 0, 0, 0, 0, 0>>,
    <<255, 63, 192, 209, 94, 90, 200, 36>>, <<0, 64, 192, 209, 94, 90, 200, 36>>,
    <<255, 255, 255, 255, 255, 255, 255, 255>> }
  \cup { <<a, 0, 0, b, 0, 0, c, d>> : a \in {0, 1, 128}, b \in {0, 7}, c \in {0, 200, 201}, d \in {0, 1, 36, 37, 128} }

Component == {0, 3, 4, 7, 8, 36, 131, 248, 255}

TwoColours == { <<255, 0, 0>>, <<8, 132, 255>> }

Images ==
  { [width |-> 1, height |-> 1, rows |-> << << <<r, g, b>> >> >>] : r \in Component, g \in Component, b \in Component }
  \cup UNION { { [width |-> w, height |-> h, rows |-> rows] : rows \in [1..h -> [1..w -> TwoColours]] }
               : w \in 1..MaxDim, h \in 1..MaxDim }

\* the largest TileName length tried, in code points
MaxNameLen == 35

\* how far a decoded buffer's length departs from the declared size
MaxExtra == 2

Fill(n, v) == [i \in 1..n |-> v]

Guids == { [i \in 1..16 |-> i - 1] }

Colours == { [alpha |-> 255, red |-> 0, green |-> 0, blue |-> 0],
             [alpha |-> 0, red |-> 1, green |-> 2, blue |-> 3] }

\* masks with named bits only, with bits 6..15, and both
Masks == 0..70 \cup {128, 255, 256, 259, 1024, 32768, 32769, 65472, 65535}

\* TileName values: runs of one BMP character of every length at a boundary
\* of the layout, a name ending in NUL, names with a character outside the
\* BMP (one code point, two code units) and a lone surrogate
NameLens == {0, 1, 2, 21, 22, 23, 29, 30, 31, MaxNameLen}

Names ==
  { Fill(n, 65) : n \in NameLens }
  \cup { <<66, 233>>, <<65, 0>>, <<128512>>, <<65, 128512, 66>>, <<55357>> }

\* SettingsMask values a caller can pass: an integer (an IntFlag member), a dict
MaskObjs ==
  { [int |-> 3],
    [dict |-> [EnableNotification |-> TRUE, EnableBadging |-> TRUE, EnableAutoUpdate |-> FALSE]] }

Tiles ==
  { [GUID |-> g, Order |-> <<7>>, ThemeColor |-> c, _NameLength |-> nl, SettingsMask |-> m,
     TileName |-> name, OwnerGUID |-> Fill(16, 17)]
    : g \in Guids, c \in Colours, nl \in {<<>>, <<1>>, <<30>>}, m \in MaskObjs, name \in Names }

\* Tile buffers: the fields' bytes for a name length prefix nl and a name
\* of nl code units, cut or zero-extended to n bytes
TileBytes(nl, unit, mask) ==
  Concat(<< [i \in 1..16 |-> i], <<7, 0, 0, 0>>, <<255, 1, 2, 3>>, IntToLe(nl, 2),
            IntToLe(mask, 2), Concat(Fill(nl, IntToLe(unit, 2))), Fill(16, 17) >>)

Resize(b, n) == [i \in 1..n |-> IF i <= Len(b) THEN b[i] ELSE 0]

Lengths(size) == {0} \cup ((size - MaxExtra)..(size + MaxExtra)) \cup {size + 40}

TileBuffers ==
  { Resize(TileBytes(nl, unit, mask), n)
    : nl \in {0, 1, 21, 22, 23, 30}, unit \in {65, 0, 55357}, mask \in {3, 65535}, n \in Lengths(TILE_SIZE) }

\* datetimes: the epoch, one microsecond later, dates with and without a
\* sub-second part, the day before the epoch, the largest datetime
Dates ==
  { EPOCH, [days |-> 0, sec |-> 0, us |-> 1], [days |-> 154000, sec |-> 0, us |-> 0],
    [days |-> 145637, sec |-> 12004, us |-> 88994], [days |-> -1, sec |-> 0, us |-> 0],
    [days |-> DATETIME_MAX_DAYS, sec |-> 86399, us |-> 999999] }

Member(enum, code) == [enum |-> enum, code |-> code]

\* the gated fields of a Profile: all None, all set, or only the first set
Gated(mode, t) ==
  [n \in {GatedNames[i] : i \in 1..9} |->
     IF mode = "none" \/ (mode = "some" /\ n # "HwagChangeTime") THEN <<>>
     ELSE IF n \in {"HwagChangeTime", "DeviceNameChangeTime", "LocaleSettingsChangeTime", "LanguageChangeTime"}
          THEN <<t>>
          ELSE <<3>>]

ReservedLens == {0, 1, 254, 255, 256, 291, 292, 293}

ProfileOf(v, t, dn, rl, mode) ==
    [Version |-> v, LastSync |-> t, UserGUID |-> [i \in 1..16 |-> i - 1], Birthday |-> EPOCH,
     Weight_g |-> <<112, 17, 1>>, Height_mm |-> 1750, Gender |-> Member("Gender", 1),
     DeviceName |-> Fill(dn, 66), LocaleName |-> <<101, 110>>,
     LocaleId |-> Member("LocaleId", 1033), Language |-> Member("Language", 1033),
     DateSeparator |-> <<47>>, NumberSeparator |-> <<44>>, DecimalSeparator |-> <<46>>,
     TimeFormat |-> Member("DisplayTimeFormat", 1), DateFormat |-> Member("DisplayDateFormat", 1),
     DistanceShortUnits |-> Member("UnitType", 1), DistanceLongUnits |-> Member("UnitType", 1),
     MassUnits |-> Member("UnitType", 1), VolumeUnits |-> Member("UnitType", 1),
     EnergyUnits |-> Member("UnitType", 1), TemperatureUnits |-> Member("UnitType", 1),
     RunDisplayUnits |-> Member("UnitType", 1), Telemetry |-> <<TRUE>>,
     ReservedData |-> Fill(rl, 9)] @@ Gated(mode, t)

\* Profiles of Version 1 and 2 with every date, reserved length and choice of
\* gated fields, and some with a DeviceName of 17 characters
Profiles ==
  { ProfileOf(v, t, 4, rl, mode)
    : v \in {1, 2}, t \in Dates, rl \in ReservedLens, mode \in {"none", "all", "some"} }
  \cup { ProfileOf(v, t, 17, 255, "all") : v \in {1, 2}, t \in Dates }

\* Profile buffers: a version, a LastSync tick count, one byte value for the
\* rest of the unconditional fields and one for everything after Telemetry
ProfileBuffers ==
  { Resize(IntToLe(v, 2) \o t \o Fill(95, f) \o Fill(PROFILE_SIZE + 40 - 105, g), n)
    : v \in {0, 1, 2, 3}, t \in {Fill(8, 0), <<0, 64, 192, 209, 94, 90, 200, 36>>},
      f \in {0, 216}, g \in {1, 200}, n \in Lengths(PROFILE_SIZE) \cup {104, 105, 141, 142} }

UserProfileBuffers ==
  { Resize(IntToLe(v, 2) \o t \o Fill(USER_PROFILE_SIZE + 40 - 10, f), n)
    : v \in {1, 2}, t \in {Fill(8, 0), <<0, 64, 192, 209, 94, 90, 200, 36>>},
      f \in {0, 1, 255}, n \in Lengths(USER_PROFILE_SIZE) }

----------------------------------------------------------------------------
(* The state machine.  The codecs keep no state between calls, so every     *)
(* behaviour is one call: from the initial state an action applies one      *)
(* codec to one input and records the result.  flagIterNull is fixed by the *)
(* Python release the program runs on.                                      *)

Env(known) == [iterNull |-> flagIterNull, enumKnown |-> known]

Init ==
  /\ op = "init"
  /\ inp = <<>>
  /\ out = Ok(<<>>)
  /\ flagIterNull \in BOOLEAN

\* no call has been made yet
Idle == op = "init"

Call(name, arg, result) ==
  /\ op' = name
  /\ inp' = arg
  /\ out' = result
  /\ UNCHANGED flagIterNull

DecodeBandTime ==
  /\ Idle
  /\ \E t \in TickSamples : Call("BandTime.decode", t, BandTime_decode(t))

EncodeBandTime ==
  /\ Idle
  /\ \E d \in Dates : Call("BandTime.encode", d, BandTime_encode(d))

EncodeMeTile ==
  /\ Idle
  /\ \E image \in Images : Call("MeTile.encode", image, Ok(MeTileAdapter_encode(image)))

EncodeArgb ==
  /\ Idle
  /\ \E a \in Component, r \in {0, 255}, g \in {0, 2, 255}, b \in {0, 3, 255} :
       LET c == [alpha |-> a, red |-> r, green |-> g, blue |-> b]
       IN  Call("Argb.encode", c, ArgbStruct_build(c))

DecodeArgb ==
  /\ Idle
  /\ \E a \in Component, r \in {0, 255}, g \in {0, 2, 255}, b \in {0, 3, 255} :
       Call("Argb.decode", <<a, r, g, b>>, ArgbStruct_parse(<<a, r, g, b>>, 0))

DecodeSettingsMask ==
  /\ Idle
  /\ \E m \in Masks : Call("SettingsMask.decode", m, Ok(FlagsEnum_decode(m, flagIterNull)))

EncodeTile ==
  /\ Idle
  /\ \E r \in Tiles : Call("Tile.encode", r, TileData_build(r, Env(TRUE)))

DecodeTile ==
  /\ Idle
  /\ \E b \in TileBuffers : Call("Tile.decode", b, TileData_parse(b, Env(TRUE)))

EncodeProfile ==
  /\ Idle
  /\ \E r \in Profiles : Call("Profile.encode", r, ProfileStruct_build(r, Env(TRUE)))

DecodeProfile ==
  /\ Idle
  /\ \E b \in ProfileBuffers, known \in BOOLEAN :
       Call("Profile.decode", [buf |-> b, known |-> known], ProfileStruct_parse(b, Env(known)))

DecodeUserProfile ==
  /\ Idle
  /\ \E b \in UserProfileBuffers :
       Call("UserProfile.decode", b, UserProfileStruct_parse(b, Env(TRUE)))

Next ==
  \/ DecodeBandTime
  \/ EncodeBandTime
  \/ EncodeMeTile
  \/ EncodeArgb
  \/ DecodeArgb
  \/ DecodeSettingsMask
  \/ EncodeTile
  \/ DecodeTile
  \/ EncodeProfile
  \/ DecodeProfile
  \/ DecodeUserProfile

Spec == Init /\ [][Next]_vars

----------------------------------------------------------------------------
(* Properties                                                               *)

Decoders == {"Tile.decode", "Profile.decode", "UserProfile.decode"}

Buffer == IF op = "Profile.decode" THEN inp.buf ELSE inp

DeclaredSize ==
  CASE op \in {"Tile.decode", "Tile.encode"} -> TILE_SIZE
    [] op \in {"Profile.decode", "Profile.encode"} -> PROFILE_SIZE
    [] op = "UserProfile.decode" -> USER_PROFILE_SIZE

\* the number of UTF-16 code units of a str
CodeUnits(str) == Len(Concat([i \in 1..Len(str) |-> Utf16Units(str[i])]))

\* C1: every valid Tile whose TileName has at most 30 UTF-16 code units
\* encodes, and decoding the result gives back GUID, Order, ThemeColor,
\* SettingsMask, TileName and OwnerGUID.
C1_TileRoundTrip ==
  (op = "Tile.encode" /\ inp._NameLength = <<>> /\ Utf16Encode(inp.TileName).ok
     /\ CodeUnits(inp.TileName) <= 30 /\ "int" \in DOMAIN inp.SettingsMask)
  => /\ out.ok
     /\ LET d == TileData_parse(out.val, Env(TRUE))
        IN  /\ d.ok
            /\ d.val.GUID = inp.GUID
            /\ d.val.Order = inp.Order
            /\ d.val.ThemeColor = inp.ThemeColor
            /\ FlagsEnum_encode([dict |-> d.val.SettingsMask], flagIterNull) = Ok(inp.SettingsMask.int)
            /\ d.val.TileName = inp.TileName
            /\ d.val.OwnerGUID = inp.OwnerGUID

\* the bytes the fields of a Tile accumulate: 44 bytes around the name
TileAccumulated(r) == 44 + 2 * CodeUnits(r.TileName)

\* the bytes the fields of a Profile accumulate: 105 up to Telemetry, 37 for
\* the gated fields, the reserved data
ProfileAccumulated(r) == 105 + (IF r.Version >= 2 THEN 37 ELSE 0) + Len(r.ReservedData)

\* a Profile whose every field has a value its codec can write
ProfileWritable(r) ==
  /\ r.LastSync.days >= 0
  /\ Len(r.DeviceName) <= 16
  /\ r.Version >= 2 => \A i \in 1..9 : r[GatedNames[i]] # <<>>

\* C2: encoding a Tile or a Profile either yields a buffer of exactly the
\* declared size (88, 397), zero-padded when the fields accumulate less, or
\* fails when they accumulate more; no buffer has another length.
C2_ExactSizeOrFail ==
  /\ (op = "Tile.encode" /\ inp._NameLength = <<>> /\ Utf16Encode(inp.TileName).ok)
     => IF TileAccumulated(inp) <= TILE_SIZE
        THEN out.ok /\ Len(out.val) = TILE_SIZE
        ELSE ~out.ok
  /\ (op = "Profile.encode" /\ ProfileWritable(inp))
     => IF ProfileAccumulated(inp) <= PROFILE_SIZE
        THEN /\ out.ok
             /\ Len(out.val) = PROFILE_SIZE
             /\ \A i \in (ProfileAccumulated(inp) + 1)..PROFILE_SIZE : out.val[i] = 0
        ELSE ~out.ok
  /\ (op \in {"Tile.encode", "Profile.encode"} /\ out.ok) => Len(out.val) = DeclaredSize

\* C3: decoding a Tile, Profile or UserProfile buffer whose length differs
\* from the declared size (88, 397, 282), shorter or longer, fails.
C3_WrongLengthRejected ==
  (op \in Decoders /\ Len(Buffer) # DeclaredSize) => ~out.ok

\* C4: decoding a 16-bit mask with the SettingsMask codec and encoding the
\* decoded value gives the mask back, bits 6..15 included.
C4_MaskRoundTrip ==
  op = "SettingsMask.decode"
  => out.ok /\ FlagsEnum_encode([dict |-> out.val], flagIterNull) = Ok(inp)

\* the names of the gated fields a decoded Profile holds a value for
Present(profile) == {i \in 1..9 : profile[GatedNames[i]] # <<>>}

\* C5: a decoded Profile with Version below 2 has none of the nine gated
\* fields and its ReservedData starts right after Telemetry (offset 105);
\* with Version 2 or more it has all nine, taken from the 37 bytes after
\* Telemetry, and its ReservedData starts at offset 142.
C5_VersionGate ==
  (op = "Profile.decode" /\ out.ok)
  => /\ out.val.Version = LeToInt(SubSeq(inp.buf, 1, 2))
     /\ out.val.Version < 2
          => /\ Present(out.val) = {}
             /\ out.val.ReservedData = Slice(inp.buf, 105, Len(inp.buf) - 105)
     /\ out.val.Version >= 2
          => /\ Present(out.val) = 1..9
             /\ out.val.HwagChangeAgent = <<inp.buf[114]>>
             /\ out.val.DeviceNameChangeAgent = <<inp.buf[123]>>
             /\ out.val.LocaleSettingsChangeAgent = <<inp.buf[132]>>
             /\ out.val.LanguageChangeAgent = <<inp.buf[141]>>
             /\ out.val.MaxHR = <<inp.buf[142]>>
             /\ out.val.ReservedData = Slice(inp.buf, 142, Len(inp.buf) - 142)
     /\ Len(inp.buf) = PROFILE_SIZE

\* a Version 2 buffer decoded with all nine gated fields and 255 reserved bytes
C5_Witness ==
  /\ op = "Profile.decode"
  /\ out.ok
  /\ out.val.Version = 2
  /\ Present(out.val) = 1..9
  /\ Len(out.val.ReservedData) = 255
  /\ inp.buf[142] = 1

\* a Version 1 buffer decoded with no gated field and 292 reserved bytes
C5_WitnessVersion1 ==
  /\ op = "Profile.decode"
  /\ out.ok
  /\ out.val.Version = 1
  /\ Present(out.val) = {}
  /\ Len(out.val.ReservedData) = 292

\* C6: a Version 2 Profile that encodes decodes to a record equal to it in
\* every field, the gated fields and ReservedData included.
C6_ProfileRoundTrip ==
  (op = "Profile.encode" /\ inp.Version = 2 /\ out.ok)
  => LET d == ProfileStruct_parse(out.val, Env(TRUE))
     IN  d.ok /\ \A n \in DOMAIN inp : d.val[n] = inp[n]

\* C7: BandTime._decode returns a timestamp for every 64-bit tick count, and
\* the epoch for tick count 0.
C7_DecodeTotal ==
  op = "BandTime.decode"
  => /\ out.ok
     /\ inp = Fill(8, 0) => out.val = EPOCH

\* C8: the pixel at row y, column x is written as the two bytes at offset
\* 2 * ((y - 1) * width + (x - 1)), which read little-endian are
\* (r >> 3) * 2048 + (g >> 2) * 32 + (b >> 3); nothing else is written.
C8_PixelPacking ==
  op = "MeTile.encode"
  => /\ out.ok
     /\ Len(out.val) = 2 * inp.width * inp.height
     /\ \A y \in 1..inp.height, x \in 1..inp.width :
          LET px == inp.rows[y][x]
              k  == (y - 1) * inp.width + x
          IN  out.val[2 * k - 1] + 256 * out.val[2 * k]
                = (px[1] \div 8) * 2048 + (px[2] \div 4) * 32 + (px[3] \div 8)

\* the pixel (255, 0, 0) encoded as the bytes 00, F8
C8_Witness ==
  /\ op = "MeTile.encode"
  /\ inp.rows = << << <<255, 0, 0>> >> >>
  /\ out.val = <<0, 248>>

\* an image of more than one row whose rows differ
C8_WitnessRows ==
  /\ op = "MeTile.encode"
  /\ inp.height = 2 /\ inp.width = 2
  /\ inp.rows[1] # inp.rows[2]
  /\ inp.rows[1][1] # inp.rows[1][2]

\* C9: encoding an ARGB colour gives the four bytes alpha, red, green, blue,
\* and decoding them gives the colour back.
C9_ArgbBytes ==
  op = "Argb.encode"
  => /\ out.ok
     /\ out.val = <<inp.alpha, inp.red, inp.green, inp.blue>>
     /\ ArgbStruct_parse(out.val, 0) = Ok(inp)

\* C10: an encoded Tile carries the length of its TileName as the 16-bit
\* prefix at offset 24, whether or not the caller supplied _NameLength.
C10_PrefixFromContent ==
  (op = "Tile.encode" /\ Utf16Encode(inp.TileName).ok /\ TileAccumulated(inp) <= TILE_SIZE)
  => out.ok /\ LeToInt(SubSeq(out.val, 25, 26)) = Len(inp.TileName)

====
